---- MODULE Spec2Model ----
(***************************************************************************)
(* State-machine model of web_dashboard.py: the poller thread              *)
(* (poller_loop and the helpers it calls), the two documents it keeps on   *)
(* disk (state.json, energy_baseline.json), the stop event, a concurrent   *)
(* request handler that takes snapshot copies, the wall clock, and a kill  *)
(* and restart of the process.                                             *)
(*                                                                         *)
(* Units.  The clock counts poll intervals (POLL_SECONDS seconds each).    *)
(* A datetime is the clock value at which it was taken; a calendar day is  *)
(* clock \div DayLen.  isoformat()/fromisoformat() of such a value is      *)
(* exact, so a stored timestamp is the integer itself.  Energy is kept in  *)
(* Wh: round(wh / 1000, 3) kWh of a whole number of Wh is that number of   *)
(* thousandths, so energy_today_kwh holds thousandths of a kWh.            *)
(***************************************************************************)
EXTENDS Integers, Sequences, FiniteSets, TLC

\* ------------------------------------------------------------------ bounds
MaxClock    == 3     \* the clock stops here
DayLen      == 2     \* poll intervals per calendar day (scaled down)
MaxClockConc == 1    \* the clock stops here when a request handler runs too (SpecConc)
MaxClockLive == 2    \* the clock stops here in the liveness check (FairSpec)
MaxRestarts == 1     \* kills and restarts of the process
MaxAppends  == 290   \* appends explored by SpecHist
MaxAgeS     == 1000  \* largest sample age (seconds) graded by SpecGrade

\* ------------------------------------------------------- program constants
POLL_SECONDS == 300
MaxRecords   == 288
NightVolts   == 100
VoltsLow     == 150
VoltsHigh    == 270
NoisePowerW  == 5
NoAgeSeconds == 9999
None         == -1

\* -------------------------------------------------------------- input sets
LifetimeWh     == {3, 5}          \* decoded lifetime counter (Wh)
Voltages       == {50, 230}       \* decoded AC voltage (V)
Powers         == {0, 10}         \* decoded power (W)
StatusCodes    == {4}             \* decoded status code
FreqsHz        == {50}            \* decoded grid frequency (Hz)
TempsC         == {40}            \* decoded temperature (C)
\* what the device does with one register request
DeviceOutcomes == {"refused", "no_response", "error_response", "exception",
                   "short_block", "registers"}
WriteOutcomes  == {"ok", "fail", "torn"}   \* a file write: done, refused at open, left partial
\* the inputs of the accounting block taken alone (SpecAcct)
VoltagesWide    == {0, 99, 100, 120, 149, 150, 230, 270, 271}
StatusCodesWide == {0, 1, 2, 4, 5, 7, 91, 92}

VARIABLES
  pc,             \* position of the poller thread
  stop_event,     \* threading.Event
  state_lock,     \* "free" | "poller" | "reader"
  state,          \* the shared Snapshot dict
  now,            \* poller_loop local: datetime.now() of the cycle
  midnight,       \* poller_loop local: today_midnight_local()
  last_midnight,  \* poller_loop local
  data,           \* poller_loop local: result of read_legacy_block()
  dev,            \* what the device did with this cycle's register request
  uploaded,       \* result of this cycle's pvoutput_addstatus call, if any
  bwrite,         \* outcome of this cycle's write of energy_baseline.json, if any
  prev_sample,    \* history: day, lifetime Wh and energy-today of the last sample returned
  tmp,            \* save_state local: the copy being written
  wake,           \* end of the current stop_event.wait
  age_s,          \* poller_loop local: age of the last sample, in seconds
  clock,          \* wall clock
  baseline_file,  \* energy_baseline.json
  state_file,     \* state.json
  rpc,            \* position of the request handler
  rcopy,          \* the copy _with_lock_read returned to it
  restarts,       \* kills so far
  appended        \* history: records appended to the live list since it was created

vars == <<pc, stop_event, state_lock, state, now, midnight, last_midnight, data, dev,
          uploaded, bwrite, prev_sample, tmp, wake, age_s, clock, baseline_file, state_file,
          rpc, rcopy, restarts, appended>>

\* ----------------------------------------------------------------- helpers
Max(a, b) == IF a >= b THEN a ELSE b
Min(a, b) == IF a <= b THEN a ELSE b

\* datetime(n.year, n.month, n.day): the day a clock value lies in
today_midnight_local(c) == c \div DayLen

Absent  == [kind |-> "absent"]
Corrupt == [kind |-> "corrupt"]
Json(doc) == [kind |-> "json", doc |-> doc]

NoData   == [kind |-> "None"]
NoCopy   == [kind |-> "None"]

decode_status(code) ==
  CASE code = 0  -> <<"Off", "muted">>
    [] code = 1  -> <<"Sleep", "sleep">>
    [] code = 4  -> <<"ON", "ok">>
    [] code = 5  -> <<"Fault", "error">>
    [] code = 91 -> <<"ON", "ok">>
    [] code = 92 -> <<"Sleep", "sleep">>
    [] OTHER     -> <<"Unknown", "muted">>

detect_night(ac_voltage, inverter_connected) ==
  IF ~inverter_connected \/ ac_voltage = None \/ ac_voltage < NightVolts
  THEN <<"Night", "night", TRUE>>
  ELSE <<"ON", "ok", FALSE>>

\* the module-level dict `state`
InitState ==
  [ inverter_connected   |-> FALSE,
    last_upload          |-> None,
    uptime_minutes_today |-> 0,
    records              |-> <<>>,
    ac_voltage           |-> None,
    grid_freq_hz         |-> None,
    inverter_temp_c      |-> None,
    energy_today_kwh     |-> 0,
    energy_total_kwh     |-> None,
    peak_power_w         |-> 0,
    status_code          |-> None,
    status_text          |-> "Unknown",
    status_class         |-> "muted",
    dq_text              |-> "DATA OK",
    dq_class             |-> "ok",
    _last_sample_ts      |-> None,
    _last_energy_wh      |-> 0,
    _midnight            |-> None ]

\* read_regs: what the caller gets for each thing the device can do
read_regs(d) ==
  CASE d = "refused"        -> "None"      \* c.connect() is false
    [] d = "no_response"    -> "None"      \* r is falsy
    [] d = "error_response" -> "None"      \* r.isError()
    [] d = "exception"      -> "raise"     \* connect/read raises; only `finally` here
    [] d = "short_block"    -> "short"     \* fewer registers than asked for
    [] d = "registers"      -> "regs"

EnergyTodayWhUnclamped(bf, today, e_wh) ==
  IF bf.kind = "json" /\ bf.doc.day = today
  THEN e_wh - bf.doc.wh
  ELSE 0

\* read_legacy_block, daily energy of one sample against the baseline document
EnergyTodayWh(bf, today, e_wh) ==
  IF bf.kind = "json" /\ bf.doc.day = today
  THEN Max(0, e_wh - bf.doc.wh)
  ELSE 0

\* read_legacy_block, is the baseline document (re)written by this sample
BaselineIsWritten(bf, today) ==
  \/ bf.kind = "absent"
  \/ bf.kind = "json" /\ bf.doc.day # today

\* the document a write with outcome w leaves behind
WriteFile(old, doc, w) ==
  CASE w = "ok"   -> Json(doc)
    [] w = "fail" -> old
    [] w = "torn" -> Corrupt

AppendRecordLate(records, rec) ==
  IF Len(records) > MaxRecords THEN Append(Tail(records), rec)
  ELSE Append(records, rec)

\* the history append of poller_loop
AppendRecord(records, rec) ==
  IF Len(records) >= MaxRecords THEN Append(Tail(records), rec)
  ELSE Append(records, rec)

\* age_s of the data-quality block: seconds from the last sample to the cycle's start
AgeSeconds(last_ts, t) ==
  IF last_ts # None THEN (t - last_ts) * POLL_SECONDS ELSE NoAgeSeconds

GradeOfAgeLate(connected, age) ==
  IF ~connected THEN <<"OFFLINE", "dq_off">>
  ELSE IF 2 * age <= 3 * POLL_SECONDS THEN <<"LIVE", "dq_ok">>
  ELSE IF age <= 3 * POLL_SECONDS THEN <<"STALE", "dq_warn">>
  ELSE <<"NO DATA", "dq_off">>

\* the if / elif chain of the data-quality block (age < POLL_SECONDS * 1.5, in halves)
GradeOfAge(connected, age) ==
  IF ~connected THEN <<"OFFLINE", "dq_off">>
  ELSE IF 2 * age < 3 * POLL_SECONDS THEN <<"LIVE", "dq_ok">>
  ELSE IF age < 3 * POLL_SECONDS THEN <<"STALE", "dq_warn">>
  ELSE <<"NO DATA", "dq_off">>

\* the freshness grade of poller_loop
Grade(connected, last_ts, t) == GradeOfAge(connected, AgeSeconds(last_ts, t))

\* dict(state): a new dict whose "records" entry is the SAME list object as
\* state["records"].  snap holds the copied values; while shares_records is true the
\* list in the copy is the live list, so what the holder sees there is state.records.
ShallowCopy(s) == [kind |-> "copy", snap |-> s, shares_records |-> TRUE]

\* what the holder of a copy reads from it
CopyView(c) ==
  IF c.shares_records THEN [c.snap EXCEPT !.records = state.records] ELSE c.snap

\* state["records"] is bound to another list object: a copy that shared the old
\* list keeps the old list as it was at that moment
Unshare(c, old_records) ==
  IF c.kind = "copy" /\ c.shares_records
  THEN [c EXCEPT !.snap.records = old_records, !.shares_records = FALSE]
  ELSE c

\* ------------------------------------------------------------------- Init
Init ==
  /\ pc = "load"
  /\ stop_event = FALSE
  /\ state_lock = "free"
  /\ state = InitState
  /\ now = None
  /\ midnight = None
  /\ last_midnight = None
  /\ data = NoData
  /\ dev = "none"
  /\ uploaded = "none"
  /\ bwrite = "none"
  /\ prev_sample = NoData
  /\ tmp = NoCopy
  /\ wake = 0
  /\ age_s = None
  /\ clock = 0
  /\ baseline_file = Absent
  /\ state_file = Absent
  /\ rpc = "idle"
  /\ rcopy = NoCopy
  /\ restarts = 0
  /\ appended = <<>>

PollerLocals == <<now, midnight, last_midnight, data, dev, uploaded, bwrite, prev_sample,
                  tmp, wake, age_s>>
Files        == <<baseline_file, state_file>>
ReaderVars   == <<rpc, rcopy>>
EnvVars      == <<clock, restarts, stop_event>>

\* ------------------------------------------------------------ poller steps
\* `with state_lock:` entered by the poller
LockBody(p) ==
  CASE p = "load_lock" -> "load_upd"
    [] p = "mid_lock"  -> "mid_get"
    [] p = "set_lock"  -> "mid_set"
    [] p = "acc_lock"  -> "acc"
    [] p = "rec_lock"  -> "rec"
    [] p = "off_lock"  -> "off"
    [] p = "save_lock" -> "save_copy"
    [] p = "dq_lock"   -> "dq"

LockPoints == {"load_lock", "mid_lock", "set_lock", "acc_lock", "rec_lock",
               "off_lock", "save_lock", "dq_lock"}

Acquire ==
  /\ pc \in LockPoints
  /\ state_lock = "free"
  /\ state_lock' = "poller"
  /\ pc' = LockBody(pc)
  /\ UNCHANGED <<state, PollerLocals, Files, ReaderVars, EnvVars, appended>>

\* load_state, up to json.load
LoadRead ==
  /\ pc = "load"
  /\ pc' = IF state_file.kind = "json" THEN "load_lock" ELSE "loop"
  /\ UNCHANGED <<state_lock, state, PollerLocals, Files, ReaderVars, EnvVars, appended>>

\* load_state, state.update(loaded) and the STARTING placeholder
LoadUpdate ==
  /\ pc = "load_upd"
  /\ state_lock = "poller"
  /\ state' = [state_file.doc EXCEPT !.dq_text = "STARTING", !.dq_class = "dq_warn"]
  /\ appended' = state_file.doc.records
  /\ rcopy' = Unshare(rcopy, state.records)
  /\ state_lock' = "free"
  /\ pc' = "loop"
  /\ UNCHANGED <<PollerLocals, Files, rpc, EnvVars>>

\* while not stop_event.is_set(): now = ...; data = None; midnight = ...
LoopTest ==
  /\ pc = "loop"
  /\ IF stop_event
     THEN /\ pc' = "stopped"
          /\ UNCHANGED <<now, midnight, data, dev, uploaded, bwrite, age_s>>
     ELSE /\ pc' = "mid_lock"
          /\ age_s' = None          \* not read again before the block assigns it
          /\ now' = clock
          /\ midnight' = today_midnight_local(clock)
          /\ data' = NoData
          /\ dev' = "none"
          /\ uploaded' = "none"
          /\ bwrite' = "none"
  /\ UNCHANGED <<state_lock, state, last_midnight, prev_sample, tmp, wake, Files,
                 ReaderVars, EnvVars, appended>>

\* last_midnight = state.get("_midnight")
MidnightGet ==
  /\ pc = "mid_get"
  /\ state_lock = "poller"
  /\ last_midnight' = state._midnight
  /\ state_lock' = "free"
  /\ pc' = "mid_test"
  /\ UNCHANGED <<state, now, midnight, data, dev, uploaded, bwrite, prev_sample, tmp,
                 wake, age_s, Files, ReaderVars, EnvVars, appended>>

IsRollover(lm, m) == lm = None \/ lm < m

\* the rollover test and the removal of the baseline document
MidnightTest ==
  /\ pc = "mid_test"
  /\ IF IsRollover(last_midnight, midnight)
     THEN /\ baseline_file' = Absent
          /\ pc' = "set_lock"
     ELSE /\ UNCHANGED baseline_file
          /\ pc' = "read"
  /\ UNCHANGED <<state_lock, state, PollerLocals, state_file, ReaderVars, EnvVars,
                 appended>>

\* the three assignments made at a rollover
MidnightReset(s, m) ==
  [s EXCEPT !._midnight = m, !.uptime_minutes_today = 0, !.records = <<>>]

MidnightSet ==
  /\ pc = "mid_set"
  /\ state_lock = "poller"
  /\ state' = MidnightReset(state, midnight)
  /\ appended' = <<>>
  \* state["records"] is bound to a new list: a copy that shared the old one keeps it
  /\ rcopy' = Unshare(rcopy, state.records)
  /\ state_lock' = "free"
  /\ pc' = "read"
  /\ UNCHANGED <<PollerLocals, Files, rpc, EnvVars>>

\* today = datetime.now().strftime("%Y-%m-%d") in read_legacy_block
Today(c) == c \div DayLen

Sample(v, f, t, p, code, e_wh, e_today) ==
  [ kind |-> "sample", ac_voltage |-> v, grid_freq_hz |-> f,
    inverter_temp_c |-> t, power_w |-> p, energy_lifetime_wh |-> e_wh,
    energy_today_wh |-> e_today, status_code |-> code ]

ReadRaisePcUncaught == "dead"

\* where an exception that leaves read_legacy_block lands: `except Exception` of the
\* loop body, then stop_event.wait
ReadRaisePc == "sleep"

\* data = read_legacy_block(): the register request, the decoding, the daily energy
\* against energy_baseline.json and the (re)writing of that document
Reading ==
  /\ pc = "read"
  /\ \E d \in DeviceOutcomes :
       /\ dev' = d
       /\ \/ /\ read_regs(d) = "raise"          \* propagates to `except Exception` of the loop
             /\ data' = NoData
             /\ pc' = ReadRaisePc
             /\ UNCHANGED <<baseline_file, bwrite, prev_sample>>
          \/ /\ read_regs(d) \in {"None", "short"}  \* `if not regs` or "Decode error"
             /\ data' = NoData
             /\ pc' = "off_lock"
             /\ UNCHANGED <<baseline_file, bwrite, prev_sample>>
          \/ /\ read_regs(d) = "regs"
             /\ \E v \in Voltages, f \in FreqsHz, t \in TempsC, p \in Powers,
                   code \in StatusCodes, e_wh \in LifetimeWh, w \in WriteOutcomes :
                  LET today   == Today(clock)
                      e_today == EnergyTodayWh(baseline_file, today, e_wh)
                      written == BaselineIsWritten(baseline_file, today)
                      created == baseline_file.kind = "absent"
                  IN  /\ written \/ w = "ok"
                      /\ baseline_file' =
                           IF written
                           THEN WriteFile(baseline_file, [day |-> today, wh |-> e_wh], w)
                           ELSE baseline_file
                      /\ bwrite' = IF written THEN w ELSE "none"
                      \* a failed first write is not caught inside: "Decode error", None
                      /\ IF created /\ w # "ok"
                         THEN /\ data' = NoData
                              /\ pc' = "off_lock"
                              /\ UNCHANGED prev_sample
                         ELSE /\ data' = Sample(v, f, t, p, code, e_wh, e_today)
                              /\ pc' = "acc_lock"
                              /\ prev_sample' = [kind |-> "sample", day |-> today,
                                                 lifetime |-> e_wh, energy |-> e_today]
  /\ UNCHANGED <<state_lock, state, now, midnight, last_midnight, uploaded, tmp, wake,
                 age_s, state_file, ReaderVars, EnvVars, appended>>

UptimeAfterUncapped(uptime, prev_ts, t, is_night, p) ==
  IF ~is_night /\ p > NoisePowerW /\ prev_ts # None
  THEN LET elapsed_min == ((t - prev_ts) * POLL_SECONDS) \div 60
       IN  IF elapsed_min > 0 THEN uptime + elapsed_min ELSE uptime
  ELSE uptime

\* the uptime increment of poller_loop (minutes)
UptimeAfter(uptime, prev_ts, t, is_night, p) ==
  IF ~is_night /\ p > NoisePowerW /\ prev_ts # None
  THEN LET elapsed_min == Min(((t - prev_ts) * POLL_SECONDS) \div 60,
                               (POLL_SECONDS * 2) \div 60)
       IN  IF elapsed_min > 0 THEN uptime + elapsed_min ELSE uptime
  ELSE uptime

IsNight(d) == detect_night(d.ac_voltage, TRUE)[3]

PlausibleVoltsNoUpper(v) == IF VoltsLow <= v THEN v ELSE None

\* v if 150 <= v <= 270 else None
PlausibleVolts(v) == IF VoltsLow <= v /\ v <= VoltsHigh THEN v ELSE None

SampleStampKept(prev_ts, t) == prev_ts

\* state["_last_sample_ts"] = now.isoformat()
SampleStamp(prev_ts, t) == t

\* the state.update({...}) of a successful sample, the uptime and _last_sample_ts
Accounted(s, d, t) ==
  LET st       == decode_status(d.status_code)
      night    == detect_night(d.ac_voltage, TRUE)
      is_night == night[3]
  IN  [s EXCEPT
        !.ac_voltage = PlausibleVolts(d.ac_voltage),
        !.grid_freq_hz = d.grid_freq_hz,
        !.inverter_temp_c = d.inverter_temp_c,
        !.energy_today_kwh = d.energy_today_wh,
        !.energy_total_kwh = d.energy_lifetime_wh,
        !.status_code = d.status_code,
        !.status_text = IF is_night THEN night[1] ELSE st[1],
        !.status_class = IF is_night THEN night[2] ELSE st[2],
        !.peak_power_w = Max(s.peak_power_w, d.power_w),
        !._last_energy_wh = d.energy_today_wh,
        !.inverter_connected = ~is_night,
        !.uptime_minutes_today =
            UptimeAfter(s.uptime_minutes_today, s._last_sample_ts, t, is_night, d.power_w),
        !._last_sample_ts = SampleStamp(s._last_sample_ts, t) ]

Accounting ==
  /\ pc = "acc"
  /\ state_lock = "poller"
  /\ state' = Accounted(state, data, now)
  /\ state_lock' = "free"
  /\ pc' = "upload"
  /\ UNCHANGED <<PollerLocals, Files, ReaderVars, EnvVars, appended>>

UploadStampAlways(s, ok, t) == [s EXCEPT !.last_upload = t]

\* if pvoutput_addstatus(...): state["last_upload"] = now.isoformat(...)
UploadStamp(s, ok, t) == IF ok THEN [s EXCEPT !.last_upload = t] ELSE s

\* if not is_night: pvoutput_addstatus(...); state["last_upload"] = ... (no lock taken)
Uploading ==
  /\ pc = "upload"
  /\ IF IsNight(data)
     THEN /\ uploaded' = "skipped"
          /\ UNCHANGED state
     ELSE \E ok \in BOOLEAN :
            /\ uploaded' = IF ok THEN "ok" ELSE "failed"
            /\ state' = UploadStamp(state, ok, now)
  /\ pc' = "rec_lock"
  /\ UNCHANGED <<state_lock, now, midnight, last_midnight, data, dev, bwrite, prev_sample,
                 tmp, wake, age_s, Files, ReaderVars, EnvVars, appended>>

Record(d, t) == [timestamp |-> t, power_w |-> d.power_w, energy_wh |-> d.energy_today_wh]

\* the chart record is appended to the live list, in place
RecordAppend ==
  /\ pc = "rec"
  /\ state_lock = "poller"
  /\ state' = [state EXCEPT !.records = AppendRecord(state.records, Record(data, now))]
  /\ appended' = Append(appended, Record(data, now))
  /\ state_lock' = "free"
  /\ pc' = "save_lock"
  /\ UNCHANGED <<PollerLocals, Files, ReaderVars, EnvVars>>

\* the assignments of the "no data this cycle" branch
MarkedOffline(s) ==
  [s EXCEPT !.inverter_connected = FALSE, !.status_text = "Offline",
            !.status_class = "muted", !.ac_voltage = None, !.grid_freq_hz = None,
            !.inverter_temp_c = None]

Offline ==
  /\ pc = "off"
  /\ state_lock = "poller"
  /\ state' = MarkedOffline(state)
  /\ state_lock' = "free"
  /\ pc' = "save_lock"
  /\ UNCHANGED <<PollerLocals, Files, ReaderVars, EnvVars, appended>>

\* save_state: tmp = dict(state)
SaveCopy ==
  /\ pc = "save_copy"
  /\ state_lock = "poller"
  /\ tmp' = ShallowCopy(state)
  /\ state_lock' = "free"
  /\ pc' = "save_write"
  /\ UNCHANGED <<state, now, midnight, last_midnight, data, dev, uploaded, bwrite,
                 prev_sample, wake, age_s, Files, ReaderVars, EnvVars, appended>>

\* save_state: open(STATE_PATH, "w"), json.dump, flush, fsync; any exception is logged
SaveWrite ==
  /\ pc = "save_write"
  /\ \E w \in WriteOutcomes : state_file' = WriteFile(state_file, CopyView(tmp), w)
  /\ tmp' = NoCopy
  /\ pc' = "dq_lock"
  /\ UNCHANGED <<state_lock, state, now, midnight, last_midnight, data, dev, uploaded,
                 bwrite, prev_sample, wake, age_s, baseline_file, ReaderVars, EnvVars,
                 appended>>

\* the data-quality block
DataQuality ==
  /\ pc = "dq"
  /\ state_lock = "poller"
  /\ age_s' = AgeSeconds(state._last_sample_ts, now)
  /\ LET g == Grade(state.inverter_connected, state._last_sample_ts, now)
     IN  state' = [state EXCEPT !.dq_text = g[1], !.dq_class = g[2]]
  /\ state_lock' = "free"
  /\ pc' = "sleep"
  /\ UNCHANGED <<now, midnight, last_midnight, data, dev, uploaded, bwrite, prev_sample,
                 tmp, wake, Files, ReaderVars, EnvVars, appended>>

\* stop_event.wait(POLL_SECONDS): entered ...
WaitBegin ==
  /\ pc = "sleep"
  /\ wake' = clock + 1
  /\ pc' = "wait"
  /\ UNCHANGED <<state_lock, state, now, midnight, last_midnight, data, dev, uploaded,
                 bwrite, prev_sample, tmp, age_s, Files, ReaderVars, EnvVars, appended>>

WaitOverIntervalOnly == clock >= wake

\* stop_event.wait(POLL_SECONDS) returns: the event is set or the interval has passed
WaitOver == stop_event \/ clock >= wake

\* ... and left
WaitEnd ==
  /\ pc = "wait"
  /\ WaitOver
  /\ pc' = "loop"
  /\ UNCHANGED <<state_lock, state, PollerLocals, Files, ReaderVars, EnvVars, appended>>

\* the steps of the poller thread of a process started with no state.json on disk
\* (LoadUpdate, the step of load_state that follows a document read, needs a restart)
PollerStep ==
  \/ Acquire \/ LoadRead \/ LoopTest \/ MidnightGet \/ MidnightTest
  \/ MidnightSet \/ Reading \/ Accounting \/ Uploading \/ RecordAppend \/ Offline
  \/ SaveCopy \/ SaveWrite \/ DataQuality \/ WaitBegin \/ WaitEnd

\* ------------------------------------------------------------- environment
\* Time passes.  The poller reads the clock when a cycle starts (LoopTest), inside
\* read_legacy_block (Reading) and while it waits; time that passes anywhere else is
\* seen only at the next of these places, so it is let pass before Reading (a slow
\* cycle, a date change between the rollover test and the decoder's own date) and
\* during the wait (which may overrun).
TickTo(limit) ==
  /\ pc \in {"read", "wait"}
  /\ clock < limit
  /\ clock' = clock + 1
  /\ UNCHANGED <<pc, state_lock, state, PollerLocals, Files, ReaderVars, restarts,
                 stop_event, appended>>

Tick     == TickTo(MaxClock)
TickConc == TickTo(MaxClockConc)
TickLive == TickTo(MaxClockLive)

\* _sig: SIGTERM / SIGINT.  The poller looks at the event in the loop test and in the
\* wait only; a signal that arrives earlier in a cycle is first seen there.
SetStop ==
  /\ pc \in {"load", "loop", "sleep", "wait"}
  /\ ~stop_event
  /\ stop_event' = TRUE
  /\ UNCHANGED <<pc, state_lock, state, PollerLocals, Files, ReaderVars, clock,
                 restarts, appended>>

\* the process is killed and started again: memory is the module's initial values,
\* the documents on disk are what they were; a kill during a write leaves it partial
Restart ==
  /\ restarts < MaxRestarts
  /\ pc # "load"
  /\ restarts' = restarts + 1
  /\ pc' = "load"
  /\ stop_event' = FALSE
  /\ state_lock' = "free"
  /\ state' = InitState
  /\ now' = None /\ midnight' = None /\ last_midnight' = None
  /\ data' = NoData /\ dev' = "none" /\ uploaded' = "none" /\ tmp' = NoCopy
  /\ bwrite' = "none" /\ prev_sample' = NoData
  /\ wake' = 0 /\ age_s' = None
  /\ rpc' = "idle" /\ rcopy' = NoCopy
  /\ appended' = <<>>
  /\ state_file' \in (IF pc = "save_write" THEN {state_file, Corrupt} ELSE {state_file})
  /\ UNCHANGED <<baseline_file, clock>>

\* ---------------------------------------------------------- request handler
\* _with_lock_read
ReaderAcquire ==
  /\ rpc = "idle"
  /\ state_lock = "free"
  /\ state_lock' = "reader"
  /\ rpc' = "locked"
  /\ UNCHANGED <<pc, state, PollerLocals, Files, rcopy, EnvVars, appended>>

ReaderCopy ==
  /\ rpc = "locked"
  /\ rcopy' = ShallowCopy(state)
  /\ state_lock' = "free"
  /\ rpc' = "has"
  /\ UNCHANGED <<pc, state, PollerLocals, Files, EnvVars, appended>>

\* the handler has rendered its response and drops the copy
ReaderDone ==
  /\ rpc = "has"
  /\ rcopy' = NoCopy
  /\ rpc' = "idle"
  /\ UNCHANGED <<pc, state_lock, state, PollerLocals, Files, EnvVars, appended>>

ReaderStep == ReaderAcquire \/ ReaderCopy \/ ReaderDone

\* the poller alone, with the clock and the stop signal
Next == PollerStep \/ Tick \/ SetStop

Spec == Init /\ [][Next]_vars

\* the same over a shorter time, with the poller thread (the only thread that takes
\* the lock here) scheduled whenever it can take a step
NextLive == PollerStep \/ TickLive \/ SetStop

FairSpec == Init /\ [][NextLive]_vars /\ WF_vars(PollerStep)

\* the poller and one request handler
NextConc == PollerStep \/ TickConc \/ ReaderStep

SpecConc == Init /\ [][NextConc]_vars

\* the poller of a process that may be killed and started again, over the documents the
\* killed process left on disk
NextRestart == PollerStep \/ LoadUpdate \/ TickConc \/ Restart

SpecRestart == Init /\ [][NextRestart]_vars

\* the history buffer alone: appends, as RecordAppend makes them, and rollover resets
HistAppend ==
  /\ Len(appended) < MaxAppends
  /\ LET k   == Len(appended)
         rec == [timestamp |-> k, power_w |-> 10 * (k % 2), energy_wh |-> k]
     IN  /\ state' = [state EXCEPT !.records = AppendRecord(state.records, rec)]
         /\ appended' = Append(appended, rec)
  /\ UNCHANGED <<pc, state_lock, PollerLocals, Files, ReaderVars, EnvVars>>

HistReset ==
  /\ appended # <<>>
  /\ state' = MidnightReset(state, state._midnight)
  /\ appended' = <<>>
  /\ UNCHANGED <<pc, state_lock, PollerLocals, Files, ReaderVars, EnvVars>>

NextHist == HistAppend \/ HistReset

SpecHist == Init /\ [][NextHist]_vars

\* the data-quality block alone: its if / elif chain applied to every connectivity flag
\* and every age in seconds, and to the age that stands for a missing timestamp
InitGrade ==
  /\ pc = "dq"
  /\ stop_event = FALSE
  /\ state_lock = "poller"
  /\ state \in {[InitState EXCEPT !.inverter_connected = c] : c \in BOOLEAN}
  /\ age_s \in (0 .. MaxAgeS) \cup {NoAgeSeconds}
  /\ now = 0 /\ midnight = 0 /\ last_midnight = None
  /\ data = NoData /\ dev = "none" /\ uploaded = "none" /\ bwrite = "none"
  /\ prev_sample = NoData /\ tmp = NoCopy /\ wake = 0 /\ clock = 0
  /\ baseline_file = Absent /\ state_file = Absent
  /\ rpc = "idle" /\ rcopy = NoCopy /\ restarts = 0 /\ appended = <<>>

GradeApply ==
  /\ pc = "dq"
  /\ state_lock = "poller"
  /\ LET g == GradeOfAge(state.inverter_connected, age_s)
     IN  state' = [state EXCEPT !.dq_text = g[1], !.dq_class = g[2]]
  /\ state_lock' = "free"
  /\ pc' = "sleep"
  /\ UNCHANGED <<PollerLocals, Files, ReaderVars, EnvVars, appended>>

SpecGrade == InitGrade /\ [][GradeApply]_vars

\* the accounting block alone, applied to a sample of every voltage and status code
InitAcct ==
  /\ pc = "acc"
  /\ stop_event = FALSE
  /\ state_lock = "poller"
  /\ state = InitState
  /\ data \in {Sample(v, f, t, p, code, e_wh, 0) :
                 v \in VoltagesWide, f \in FreqsHz, t \in TempsC, p \in Powers,
                 code \in StatusCodesWide, e_wh \in LifetimeWh}
  /\ dev = "registers"
  /\ now = 0 /\ midnight = 0 /\ last_midnight = None
  /\ uploaded = "none" /\ bwrite = "none"
  /\ prev_sample = NoData /\ tmp = NoCopy /\ wake = 0 /\ age_s = None /\ clock = 0
  /\ baseline_file = Absent /\ state_file = Absent
  /\ rpc = "idle" /\ rcopy = NoCopy /\ restarts = 0 /\ appended = <<>>

SpecAcct == InitAcct /\ [][Accounting]_vars

\* ------------------------------------------------------------------ claims
CyclePcs ==
  {"mid_lock", "mid_get", "mid_test", "set_lock", "mid_set", "read", "acc_lock",
   "acc", "upload", "rec_lock", "rec", "off_lock", "off", "save_lock",
   "save_copy", "save_write", "dq_lock", "dq", "sleep"}

InCycle == pc \in CyclePcs

PollerPcs == CyclePcs \cup {"load", "load_lock", "load_upd", "loop", "wait", "stopped"}

C2_RolloverResetsAll ==
  [][ (pc = "mid_set" /\ pc' = "read") =>
        /\ state'.uptime_minutes_today = 0
        /\ state'.peak_power_w = 0
        /\ state'.records = <<>>
        /\ (state._midnight = None \/ state._midnight < state'._midnight) ]_vars

\* what the code does at a rollover: the same without the peak power, which it keeps
C2_RolloverResetsUptimeAndHistory ==
  [][ (pc = "mid_set" /\ pc' = "read") =>
        /\ state'.uptime_minutes_today = 0
        /\ state'.peak_power_w = state.peak_power_w
        /\ state'.records = <<>>
        /\ (state._midnight = None \/ state._midnight < state'._midnight) ]_vars

\* the step of Reading that returns a sample
SampleReturned == pc = "read" /\ data'.kind = "sample"

Anchor(day, wh) == Json([day |-> day, wh |-> wh])

\* C3: a sample whose lifetime counter is below the baseline of the same day reports
\* energy-today 0 and re-anchors the baseline document to the new reading.
C3_RollbackReanchors ==
  [][ ( /\ SampleReturned
        /\ baseline_file.kind = "json"
        /\ baseline_file.doc.day = Today(clock)
        /\ data'.energy_lifetime_wh < baseline_file.doc.wh )
      => /\ data'.energy_today_wh = 0
         /\ \/ baseline_file' = Anchor(Today(clock), data'.energy_lifetime_wh)
            \/ bwrite' \in {"fail", "torn"} ]_vars

\* C4: a sample that finds no baseline document, or one of another day, reports
\* energy-today 0 and writes {today, lifetime}; a sample that finds the document of
\* today reports max(0, lifetime - baseline) and leaves it alone.  Energy-today is never
\* negative and, from one sample to the next of the same day with a lifetime counter
\* that did not decrease, does not decrease.
C4_DailyEnergy ==
  [][ SampleReturned =>
        LET today    == Today(clock)
            life     == data'.energy_lifetime_wh
            e        == data'.energy_today_wh
            fresh    == \/ baseline_file.kind = "absent"
                        \/ baseline_file.kind = "json" /\ baseline_file.doc.day # today
            anchored == baseline_file.kind = "json" /\ baseline_file.doc.day = today
        IN  /\ e >= 0
            /\ fresh => /\ e = 0
                        /\ bwrite' # "none"
                        /\ bwrite' = "ok" => baseline_file' = Anchor(today, life)
            /\ anchored => /\ e = (IF life >= baseline_file.doc.wh
                                    THEN life - baseline_file.doc.wh ELSE 0)
                           /\ baseline_file' = baseline_file
            /\ ( /\ prev_sample.kind = "sample"
                 /\ prev_sample.day = today
                 /\ life >= prev_sample.lifetime ) => e >= prev_sample.energy ]_vars

\* a later sample of a day has reported a positive energy-today against the baseline
\* the first sample of that day stored
C4_Witness ==
  /\ pc = "acc_lock"
  /\ data.kind = "sample"
  /\ data.energy_today_wh > 0
  /\ baseline_file.kind = "json"
  /\ baseline_file.doc.day = prev_sample.day
  /\ data.energy_today_wh = data.energy_lifetime_wh - baseline_file.doc.wh

LastN(seq, n) == IF Len(seq) <= n THEN seq ELSE SubSeq(seq, Len(seq) - n + 1, Len(seq))

\* C5: the history never holds more than 288 records and is always the most recent
\* (at most 288) records appended since it was last emptied, in append order.
C5_HistoryBounded ==
  /\ Len(state.records) <= MaxRecords
  /\ state.records = LastN(appended, MaxRecords)

\* 289 records have been appended: the first is gone, the other 288 are there in order
C5_Witness ==
  /\ Len(appended) = MaxRecords + 1
  /\ Len(state.records) = MaxRecords
  /\ state.records[1] = appended[2]
  /\ state.records[MaxRecords] = appended[MaxRecords + 1]
  /\ \A i \in 1..MaxRecords : state.records[i] # appended[1]

\* C6: a save made over a complete document either completes or leaves that document
\* in place.
C6_SaveIsAtomic ==
  [][ (pc = "save_write" /\ state_file.kind = "json") =>
        \/ state_file' = Json(CopyView(tmp))
        \/ state_file' = state_file ]_vars

\* C7: whatever way the register read failed, the cycle ends with connectivity false,
\* voltage, frequency and temperature null and the status Offline / muted.
C7_ReadFailuresAlike ==
  (pc = "sleep" /\ dev \in DeviceOutcomes \ {"registers"}) =>
     /\ ~state.inverter_connected
     /\ state.ac_voltage = None
     /\ state.grid_freq_hz = None
     /\ state.inverter_temp_c = None
     /\ state.status_text = "Offline"
     /\ state.status_class = "muted"

\* C8: a sample that finds an unreadable baseline document reports energy-today 0 and
\* re-anchors the document, so that the document does not stay unreadable.
C8_CorruptBaselineReanchored ==
  [][ (SampleReturned /\ baseline_file.kind = "corrupt")
      => /\ data'.energy_today_wh = 0
         /\ \/ baseline_file' = Anchor(Today(clock), data'.energy_lifetime_wh)
            \/ bwrite' \in {"fail", "torn"} ]_vars

\* positions at which the poller is about to make a device, network or file call
IoPcs == {"load", "mid_test", "read", "upload", "save_write"}

\* C9: the Snapshot is written, and copied by a request handler, only by the holder of
\* the lock, and the poller does not hold the lock at a device, network or file call.
C9_LockDiscipline ==
  /\ [][state' # state => state_lock = "poller"]_vars
  /\ [][(rpc = "locked" /\ rpc' = "has") => state_lock = "reader"]_vars
  /\ [](pc \in IoPcs => state_lock # "poller")

\* C10: what a request handler reads from the copy it holds does not change while it
\* holds it.
C10_CopyIsPointInTime ==
  [][ (rpc = "has" /\ rpc' = "has") => CopyView(rcopy)' = CopyView(rcopy) ]_vars

\* 2 x poll interval, in minutes
UptimeCapMin == (2 * POLL_SECONDS) \div 60

\* C11: the accounting of a sample adds to the uptime minutes the time since the
\* previous sample, at most 2 x poll interval, when the sample is not night-classified,
\* its power is above 5 W and a previous sample timestamp exists, and nothing otherwise;
\* no step other than the midnight reset lowers the uptime or raises it by more than
\* 2 x poll interval.
C11_UptimeAccounting ==
  /\ [][ pc = "acc" =>
          LET counted     == /\ data.ac_voltage >= NightVolts
                             /\ data.power_w > NoisePowerW
                             /\ state._last_sample_ts # None
              elapsed_min == ((now - state._last_sample_ts) * POLL_SECONDS) \div 60
              increment   == IF elapsed_min <= UptimeCapMin THEN elapsed_min ELSE UptimeCapMin
          IN  state'.uptime_minutes_today =
                state.uptime_minutes_today + (IF counted THEN increment ELSE 0) ]_vars
  /\ [][ pc # "mid_set" =>
          /\ state'.uptime_minutes_today >= state.uptime_minutes_today
          /\ state'.uptime_minutes_today <= state.uptime_minutes_today + UptimeCapMin ]_vars
  /\ [][ pc # "acc" => state'.uptime_minutes_today \in {state.uptime_minutes_today, 0} ]_vars

\* the cycle that starts three intervals after the sample whose snapshot is on disk and
\* whose upload was the last has counted 10 minutes, the cap
C11_Witness ==
  /\ pc = "upload"
  /\ now = 3
  /\ data.power_w > NoisePowerW
  /\ state.uptime_minutes_today = UptimeCapMin
  /\ state.last_upload = 0
  /\ state_file.kind = "json"
  /\ state_file.doc._last_sample_ts = 0

\* C12: an upload is attempted at most once in a cycle, and only for a sample that is
\* not night-classified; the last-upload timestamp changes only with an upload that
\* succeeded; the upload step changes neither the connectivity flag nor the grade, and a
\* cycle whose upload failed ends connected and LIVE like one whose upload succeeded.
C12_UploadOnceNoSideEffects ==
  /\ [](pc = "upload" => uploaded = "none")
  /\ [][ (uploaded' # uploaded /\ uploaded' \in {"ok", "failed"}) =>
          /\ pc = "upload"
          /\ data.kind = "sample"
          /\ data.ac_voltage >= NightVolts ]_vars
  /\ [][ state'.last_upload # state.last_upload =>
          /\ pc = "upload"
          /\ uploaded' = "ok"
          /\ state'.last_upload = now ]_vars
  /\ [][ pc = "upload" =>
          /\ state'.inverter_connected = state.inverter_connected
          /\ state'.dq_text = state.dq_text
          /\ state'.dq_class = state.dq_class ]_vars
  /\ []( (pc = "sleep" /\ uploaded \in {"ok", "failed"}) =>
          /\ state.inverter_connected
          /\ state.dq_text = "LIVE" )

\* a cycle whose upload failed has been graded: the last-upload timestamp is still that
\* of the earlier cycle's upload
C12_Witness ==
  /\ pc = "sleep"
  /\ uploaded = "failed"
  /\ now > 0
  /\ state.last_upload = 0
  /\ state.inverter_connected
  /\ state.dq_text = "LIVE"

C14_CooperativeStop ==
  /\ [][ stop_event => ~(pc = "loop" /\ pc' = "mid_lock") ]_vars
  /\ [][ stop_event => stop_event' ]_vars
  /\ (stop_event ~> (pc = "stopped"))
  /\ []( (pc = "wait" /\ stop_event) => ENABLED WaitEnd )

\* the poller has stopped after a signal that came during a wait, before the interval
\* was over
C14_Witness ==
  /\ pc = "stopped"
  /\ stop_event
  /\ now # None
  /\ clock < wake

\* C15: when the upload of a cycle is attempted, the history record of that cycle has
\* been appended and its snapshot saved (Persisting comes before Uploading).
C15_PersistBeforeUpload ==
  [][ (pc = "upload" /\ uploaded' \in {"ok", "failed"}) =>
        /\ appended # <<>>
        /\ appended[Len(appended)] = Record(data, now)
        /\ (state_file.kind = "json" => state_file.doc._last_sample_ts = now) ]_vars

\* C16: every cycle that reaches the inter-cycle wait has rewritten the grade from the
\* connectivity flag and the last-sample timestamp it ends with, so the placeholders
\* that precede the first grading (DATA OK, STARTING) are gone by then.
C16_GradingAlwaysRuns ==
  pc = "wait" =>
    /\ state.dq_text = Grade(state.inverter_connected, state._last_sample_ts, now)[1]
    /\ state.dq_text \notin {"STARTING", "DATA OK"}

\* C17: after a sample has been accounted, the operating state in the Snapshot is
\* Night / night when the voltage in the Snapshot is null or the sample's voltage is
\* below 100 V, and otherwise the table entry of the status code.
C17_NightOverride ==
  pc = "upload" =>
    LET code == data.status_code
        text == state.status_text
        class == state.status_class
    IN  IF state.ac_voltage = None \/ data.ac_voltage < NightVolts
        THEN text = "Night" /\ class = "night"
        ELSE /\ code = 0 => text = "Off" /\ class = "muted"
             /\ code \in {1, 92} => text = "Sleep" /\ class = "sleep"
             /\ code \in {4, 91} => text = "ON" /\ class = "ok"
             /\ code = 5 => text = "Fault" /\ class = "error"
             /\ code \notin {0, 1, 4, 5, 91, 92} => text = "Unknown" /\ class = "muted"

\* C18: the voltage in the Snapshot is null or within [150, 270] V; a sample with a
\* voltage outside that range stores null and is accounted like any other sample.
C18_VoltagePlausible ==
  /\ state.ac_voltage = None \/ (150 <= state.ac_voltage /\ state.ac_voltage <= 270)
  /\ (pc = "upload" /\ data.kind = "sample") =>
        /\ (data.ac_voltage < 150 \/ data.ac_voltage > 270) => state.ac_voltage = None
        /\ (150 <= data.ac_voltage /\ data.ac_voltage <= 270) =>
              state.ac_voltage = data.ac_voltage
        /\ state._last_sample_ts = now
        /\ state.status_code = data.status_code
        /\ state.energy_total_kwh = data.energy_lifetime_wh
        /\ state.status_text # "Offline"

\* a sample of 271 V has been accounted: the Snapshot holds no voltage, the sample's
\* timestamp and status code, and the inverter counts as connected
C18_Witness ==
  /\ pc = "upload"
  /\ data.ac_voltage = 271
  /\ state.ac_voltage = None
  /\ state._last_sample_ts = now
  /\ state.status_code = data.status_code
  /\ state.inverter_connected

\* C19: the grade a cycle writes is OFFLINE or LIVE, never STALE or NO DATA: when the
\* connectivity flag is true at the grading, the last-sample timestamp is the start of
\* this cycle (age 0), whatever time has passed since the previous sample.
C19_GradeOfflineOrLive ==
  [][ (pc = "dq" /\ pc' = "sleep") =>
        /\ state'.dq_text \in {"OFFLINE", "LIVE"}
        /\ state.inverter_connected => /\ state._last_sample_ts = now
                                        /\ age_s' = 0
                                        /\ state'.dq_text = "LIVE"
        /\ ~state.inverter_connected => state'.dq_text = "OFFLINE" ]_vars

\* a cycle that found the device silent three intervals after the last sample has
\* graded OFFLINE, not NO DATA
C19_Witness ==
  /\ pc = "sleep"
  /\ dev = "no_response"
  /\ age_s = 3 * POLL_SECONDS
  /\ ~state.inverter_connected
  /\ state.dq_text = "OFFLINE"

\* C20: while the calendar day is the one the baseline document was stored for, no step
\* removes or rewrites the document.
C20_BaselineKeptForTheDay ==
  [][ ( /\ baseline_file.kind = "json"
        /\ baseline_file.doc.day = Today(clock)
        /\ Today(clock') = Today(clock) )
      => baseline_file' = baseline_file ]_vars

\* C21: a copy a request handler takes once a cycle has completed and graded is
\* consistent: its grade is OFFLINE exactly when its connectivity flag is false.
C21_CopyGradeMatchesConnectivity ==
  [][ ( /\ rpc = "locked" /\ rpc' = "has"
        /\ now # None /\ now > 0
        /\ state.dq_text \in {"OFFLINE", "LIVE"} )
      => LET s == CopyView(rcopy)'
         IN  (s.dq_text = "OFFLINE") <=> ~s.inverter_connected ]_vars

====
